---- MODULE Spec2Model ----
(***************************************************************************)
(* Model of csvpshmem-viewer: the event store (src/src/data.rs) and the    *)
(* application object with its per-frame handler (src/src/app.rs).         *)
(*                                                                         *)
(* Times (f64 seconds in the source) are integers counting units of       *)
(* 0.5 ns, half the minimal visible span of 1e-9 s, so that every time     *)
(* constant of the source is a whole number: 1e-9 s is 2, 0.0001 s is      *)
(* 200000, 0.01 s is 20000000 and 1.0 s is 2000000000.  Half a window is   *)
(* compared exactly by doubling both sides.  Pixels (f32) are integers.    *)
(* An Option<T> is a sequence of length at most one: <<>> is None, <<x>>   *)
(* is Some(x).                                                             *)
(***************************************************************************)
EXTENDS Integers, Sequences, FiniteSets, TLC

VARIABLES
    dir,                    \* the working directory read by load_from_dir
    pc,                     \* "init" | "constructed" | "running" (a frame
                            \* has run) | "crashed" (a panic)
    profile_data,           \* Option<ProfileData>
    error_msg,              \* Option<String>
    cursor_time,
    hover_time,             \* Option<f64>
    window_size_seconds,
    playing,
    playback_speed,
    show_rx,
    show_tx,
    timeline_start_time,
    timeline_end_time,
    timeline_pe_scroll,
    timeline_track_height,
    visited,                \* ui_bandwidth: indices of the events the scan visited
    comms,                  \* ui_bandwidth: (src, dst) -> (tx, rx)
    interaction_bytes,      \* ui_bandwidth: pe -> (tx, rx) relative to hovered_pe
    max_interaction,        \* ui_bandwidth
    hovered_pe,             \* ui_bandwidth: Option<u32>
    last_frame,             \* what the last frame was given: stable_dt, a click
                            \* on the play button, a pointer that sets the
                            \* cursor, a zoom of the time range
    zoom_log                \* the zooms applied to a time range on its own:
                            \* the range each one found, its factor and anchor

vars == <<dir, pc, profile_data, error_msg, cursor_time, hover_time,
          window_size_seconds, playing, playback_speed, show_rx, show_tx,
          timeline_start_time, timeline_end_time, timeline_pe_scroll,
          timeline_track_height, visited, comms, interaction_bytes,
          max_interaction, hovered_pe, last_frame, zoom_log>>

appVars == <<profile_data, error_msg, cursor_time, hover_time,
             window_size_seconds, playing, playback_speed, show_rx, show_tx,
             timeline_start_time, timeline_end_time, timeline_pe_scroll,
             timeline_track_height>>

bwVars == <<visited, comms, interaction_bytes, max_interaction, hovered_pe>>

(***************************************************************************)
(* Bounds of the model.                                                    *)
(***************************************************************************)
MaxFiles == 2       \* directory entries
MaxRows == 2        \* records per file
\* u32 (process ids, pe_count) is modelled by a narrower unsigned type whose
\* largest value is U32Max; arithmetic on it wraps or panics as u32 does.
U32Max == 7
\* Pointer positions and drag distances along x are multiples of 1 / XDen of
\* the content width.
XDen == 2

(***************************************************************************)
(* Program constants, times in units of 0.5 ns.                            *)
(***************************************************************************)
InitialWindow == 20000000       \* window_size_seconds: 0.01
InitialEnd == 2000000000        \* timeline_end_time: 1.0
MinWindow == 200000             \* the window slider's lower end, 0.0001
SpeedOne == 10                  \* playback_speed 1.0, counted in tenths
InitialTrackHeight == 16
MinTrackHeight == 8
MaxTrackHeight == 100
MinSpan == 2                    \* 0.000000001
HalfMinSpan == 1                \* 0.0000000005
RestartMargin == 20000          \* 0.00001
OneSecond == 2000000000         \* max_time.max(1.0)
SpeedMin == 1                   \* the speed slider's lower end, 0.1
RulerHeight == 30

\* Event times of the model are multiples of Step (50 us), half the
\* smallest window.
Step == MinWindow \div 2

None == <<>>
Some(x) == <<x>>

Max(a, b) == IF a >= b THEN a ELSE b
Min(a, b) == IF a <= b THEN a ELSE b

(***************************************************************************)
(* data.rs: RawEvent, Event, ProfileData                                   *)
(***************************************************************************)
\* One CSV row: a RawEvent when it deserializes (parses), else a row that
\* fails deserialization.
RawEvent(t, d, tgt, rx, tx, x) ==
    [parses |-> TRUE, time |-> t, duration_sec |-> d, target_pe |-> tgt,
     bytes_rx |-> rx, bytes_tx |-> tx, extra |-> x]

BadRow ==
    [parses |-> FALSE, time |-> 0, duration_sec |-> 0, target_pe |-> 0,
     bytes_rx |-> 0, bytes_tx |-> 0, extra |-> None]

Event(pe, r) == [source_pe |-> pe, raw |-> r]

ProfileData(ev, cnt, hosts, lo, hi) ==
    [events |-> ev, pe_count |-> cnt, pe_hostnames |-> hosts,
     min_time |-> lo, max_time |-> hi]

\* A directory entry: pe is Some(id) when the name is pperf.<id>.csv with
\* <id> a u32, None for any other name.
DirEntry(p, ok, rs) == [pe |-> p, readable |-> ok, rows |-> rs]

Ok(v) == [tag |-> "Ok", val |-> v, err |-> ""]
Err(e) == [tag |-> "Err", val |-> <<>>, err |-> e]
Panic == [tag |-> "Panic", val |-> <<>>, err |-> ""]

\* A load that recovers the rows of a file that parse.
load_file_SkipBadRows(entry, source_pe) ==
    IF ~entry.readable THEN Err("Io")
    ELSE Ok([i \in 1..Len(SelectSeq(entry.rows, LAMBDA r : r.parses)) |->
                Event(source_pe, SelectSeq(entry.rows, LAMBDA r : r.parses)[i])])

\* ProfileData::load_file
load_file(entry, source_pe) ==
    IF ~entry.readable THEN Err("Io")
    ELSE IF \E i \in 1..Len(entry.rows) : ~entry.rows[i].parses THEN Err("Schema")
    ELSE Ok([i \in 1..Len(entry.rows) |-> Event(source_pe, entry.rows[i])])

\* The directory loop of load_from_dir; acc holds events, max_pe and
\* pe_hostnames.
RECURSIVE ScanDir(_, _, _)
ScanDir(entries, i, acc) ==
    IF i > Len(entries) THEN Ok(acc)
    ELSE IF entries[i].pe = None THEN ScanDir(entries, i + 1, acc)
    ELSE LET pe_id == entries[i].pe[1]
             max_pe == IF pe_id > acc.max_pe THEN pe_id ELSE acc.max_pe
             loaded == load_file(entries[i], pe_id)
         IN  IF loaded.tag = "Err" THEN Err(loaded.err)
             ELSE IF Len(loaded.val) = 0 THEN Panic
             ELSE IF loaded.val[1].raw.extra = None THEN Panic
             ELSE ScanDir(entries, i + 1,
                    [events |-> acc.events \o loaded.val,
                     max_pe |-> max_pe,
                     pe_hostnames |->
                        [p \in DOMAIN acc.pe_hostnames \cup {pe_id} |->
                            IF p = pe_id THEN loaded.val[1].raw.extra[1]
                            ELSE acc.pe_hostnames[p]]])

\* A sort that compares the wrong way round.
SortKeyLe_Descending(a, b) == a.raw.time >= b.raw.time

\* The comparator of events.sort_by: a is not Greater than b.
SortKeyLe(a, b) == a.raw.time <= b.raw.time

\* events.sort_by: a stable sort, here by insertion after the last element
\* that does not compare greater.
RECURSIVE InsertStable(_, _)
InsertStable(sorted, e) ==
    IF Len(sorted) = 0 THEN <<e>>
    ELSE IF SortKeyLe(sorted[Len(sorted)], e) THEN Append(sorted, e)
    ELSE Append(InsertStable(SubSeq(sorted, 1, Len(sorted) - 1), e),
                sorted[Len(sorted)])

RECURSIVE sort_by(_)
sort_by(events) ==
    IF Len(events) = 0 THEN <<>>
    ELSE InsertStable(sort_by(SubSeq(events, 1, Len(events) - 1)),
                      events[Len(events)])

MinTimeOf(events) == IF Len(events) = 0 THEN 0 ELSE events[1].raw.time

RECURSIVE FoldMaxEnd(_, _)
FoldMaxEnd(events, acc) ==
    IF Len(events) = 0 THEN acc
    ELSE FoldMaxEnd(Tail(events),
                    Max(acc, events[1].raw.time + events[1].raw.duration_sec))

MaxTimeOf(events) == FoldMaxEnd(events, 0)

\* max_pe + 1 in u32: a panic when overflow checks are compiled in, the
\* wrapped value when they are not.
PeCountOutcomes(max_pe) ==
    IF max_pe + 1 > U32Max
    THEN {Panic, Ok((max_pe + 1) % (U32Max + 1))}
    ELSE {Ok(max_pe + 1)}

\* ProfileData::load_from_dir: the set of outcomes the build can produce.
load_from_dir(d) ==
    IF ~d.readable THEN {Err("Io")}
    ELSE LET scan == ScanDir(d.entries, 1,
                        [events |-> <<>>, max_pe |-> 0,
                         pe_hostnames |-> [p \in {} |-> ""]])
         IN  IF scan.tag # "Ok" THEN {scan}
             ELSE LET events == sort_by(scan.val.events)
                  IN  {IF c.tag = "Panic" THEN Panic
                       ELSE Ok(ProfileData(events, c.val, scan.val.pe_hostnames,
                                           MinTimeOf(events), MaxTimeOf(events)))
                       : c \in PeCountOutcomes(scan.val.max_pe)}

(***************************************************************************)
(* app.rs: VisualizerApp::new                                              *)
(***************************************************************************)
EmptyMap == [k \in {} |-> <<0, 0>>]

\* The struct literal of VisualizerApp::new, before the load.
FreshApp ==
    /\ profile_data = None
    /\ error_msg = None
    /\ cursor_time = 0
    /\ hover_time = None
    /\ window_size_seconds = InitialWindow
    /\ playing = FALSE
    /\ playback_speed = SpeedOne
    /\ show_rx = TRUE
    /\ show_tx = TRUE
    /\ timeline_start_time = 0
    /\ timeline_end_time = InitialEnd
    /\ timeline_pe_scroll = 0
    /\ timeline_track_height = InitialTrackHeight

NoFrameYet ==
    /\ last_frame = [dt |-> 0, play_clicked |-> FALSE, sets_cursor |-> FALSE,
                     time_zoom |-> None]
    /\ zoom_log = <<>>
    /\ visited = <<>>
    /\ comms = EmptyMap
    /\ interaction_bytes = EmptyMap
    /\ max_interaction = 0
    /\ hovered_pe = None

\* VisualizerApp::new: the load and the match on its result.  A panic
\* inside the load leaves no application object.
New ==
    /\ pc = "init"
    /\ \E out \in load_from_dir(dir) :
          CASE out.tag = "Ok" ->
                /\ pc' = "constructed"
                /\ cursor_time' = IF Len(out.val.events) # 0
                                  THEN out.val.min_time ELSE cursor_time
                /\ profile_data' = Some(out.val)
                /\ timeline_start_time' = out.val.min_time
                /\ timeline_end_time' = out.val.max_time
                /\ UNCHANGED <<error_msg, hover_time, window_size_seconds,
                               playing, playback_speed, show_rx, show_tx,
                               timeline_pe_scroll, timeline_track_height>>
            [] out.tag = "Err" ->
                /\ pc' = "constructed"
                /\ error_msg' = Some(out.err)
                /\ UNCHANGED <<profile_data, cursor_time, hover_time,
                               window_size_seconds, playing, playback_speed,
                               show_rx, show_tx, timeline_start_time,
                               timeline_end_time, timeline_pe_scroll,
                               timeline_track_height>>
            [] out.tag = "Panic" ->
                /\ pc' = "crashed"
                /\ UNCHANGED appVars
    /\ UNCHANGED <<dir, bwVars, last_frame, zoom_log>>

(***************************************************************************)
(* app.rs: VisualizerApp::ui_bandwidth                                     *)
(***************************************************************************)
\* A lower bound that starts half a window too late.
InWindowLow_Late(time, view_time, window) == 2 * time < 2 * view_time

\* e.raw.time < start_time, with start_time = view_time - window / 2.
InWindowLow(time, view_time, window) == 2 * time < 2 * view_time - window

\* event.raw.time > end_time, with end_time = view_time + window / 2.
PastWindowEnd(time, view_time, window) == 2 * time > 2 * view_time + window

\* slice::partition_point: a binary search over [lo, hi), 0-based.
RECURSIVE Bisect(_, _, _, _, _)
Bisect(events, lo, hi, view_time, window) ==
    IF lo >= hi THEN lo
    ELSE LET mid == lo + (hi - lo) \div 2
         IN  IF InWindowLow(events[mid + 1].raw.time, view_time, window)
             THEN Bisect(events, mid + 1, hi, view_time, window)
             ELSE Bisect(events, lo, mid, view_time, window)

partition_point(events, view_time, window) ==
    Bisect(events, 0, Len(events), view_time, window)

\* for i in start_idx..len with its break: the 1-based indices visited.
RECURSIVE ScanWindow(_, _, _, _)
ScanWindow(events, i, view_time, window) ==
    IF i > Len(events) THEN <<>>
    ELSE IF PastWindowEnd(events[i].raw.time, view_time, window) THEN <<>>
    ELSE <<i>> \o ScanWindow(events, i + 1, view_time, window)

WindowQuery(events, view_time, window) ==
    ScanWindow(events, partition_point(events, view_time, window) + 1,
               view_time, window)

\* comms.entry(key).or_insert((0, 0))
EntryOrZero(map, key) == IF key \in DOMAIN map THEN map[key] ELSE <<0, 0>>

\* comms.entry(key).or_insert((0, 0)).0 += tx; .1 += rx
AddTo(map, key, tx, rx) ==
    [k \in DOMAIN map \cup {key} |->
        IF k = key
        THEN <<EntryOrZero(map, key)[1] + tx, EntryOrZero(map, key)[2] + rx>>
        ELSE map[k]]

\* The receive total booked under the event's own (src, dst) key.
RxKey_Forward(src, dst) == <<src, dst>>

\* The key the receive total of an event is booked under.
RxKey(src, dst) == <<dst, src>>

\* The transmit filter ignored.
TxEnabled_Always(flag) == TRUE

TxEnabled(flag) == flag

\* The body of the aggregation loop for one visited event.
AggregateEvent(map, event, rx_on, tx_on) ==
    IF event.raw.target_pe >= 0
    THEN LET src == event.source_pe
             dst == event.raw.target_pe
         IN  IF src # dst
             THEN LET withTx ==
                        IF TxEnabled(tx_on) /\ event.raw.bytes_tx > 0
                        THEN AddTo(map, <<src, dst>>, event.raw.bytes_tx, 0)
                        ELSE map
                  IN  IF rx_on /\ event.raw.bytes_rx > 0
                      THEN AddTo(withTx, RxKey(src, dst), 0, event.raw.bytes_rx)
                      ELSE withTx
             ELSE map
    ELSE map

RECURSIVE Aggregate(_, _, _, _, _)
Aggregate(events, idxs, map, rx_on, tx_on) ==
    IF Len(idxs) = 0 THEN map
    ELSE Aggregate(events, Tail(idxs),
                   AggregateEvent(map, events[Head(idxs)], rx_on, tx_on),
                   rx_on, tx_on)

\* The orders a HashMap of these keys can be iterated in.
RECURSIVE IterationOrders(_)
IterationOrders(keys) ==
    IF keys = {} THEN {<<>>}
    ELSE UNION {{<<k>> \o o : o \in IterationOrders(keys \ {k})} : k \in keys}

\* Only the pairs that start at the hovered node are counted.
InteractionPartner_SourceOnly(key, h) ==
    IF key[1] = h THEN Some(key[2]) ELSE None

\* if *src == h { entry(*dst) } else if *dst == h { entry(*src) }
InteractionPartner(key, h) ==
    IF key[1] = h THEN Some(key[2])
    ELSE IF key[2] = h THEN Some(key[1])
    ELSE None

\* The loop over &comms in one iteration order; acc holds interaction_bytes
\* and max_interaction.
RECURSIVE Interactions(_, _, _, _)
Interactions(map, order, h, acc) ==
    IF Len(order) = 0 THEN acc
    ELSE LET key == Head(order)
             partner == InteractionPartner(key, h)
         IN  IF partner = None THEN Interactions(map, Tail(order), h, acc)
             ELSE LET bytes == AddTo(acc.bytes, partner[1], map[key][1], map[key][2])
                      e == bytes[partner[1]]
                  IN  Interactions(map, Tail(order), h,
                        [bytes |-> bytes, max |-> Max(acc.max, e[1] + e[2])])

\* The pointer is over node i of 0..count, or over none.
HoveredPes(count) == {None} \cup {Some(i) : i \in 0..(count - 1)}

(***************************************************************************)
(* app.rs: VisualizerApp::ui_timeline                                      *)
(***************************************************************************)
\* A clamp without its lower end.
Clamp_UpperOnly(x, lo, hi) == IF x > hi THEN hi ELSE x

\* f64::clamp, f32::clamp
Clamp(x, lo, hi) == IF x < lo THEN lo ELSE IF x > hi THEN hi ELSE x

\* The pointer's x is timeline_rect.min.x + (xn / XDen) * width, its y is
\* timeline_rect.min.y + y.  The ruler strip lies above y = 0 and spans the
\* label column too, so xn is negative there.
InContent(tl, content_h) ==
    /\ tl.hovered
    /\ 0 <= tl.xn /\ tl.xn <= XDen
    /\ 0 <= tl.y /\ tl.y <= content_h

InRuler(tl) == tl.hovered /\ -RulerHeight <= tl.y /\ tl.y <= 0

\* x_to_time at the pointer
x_to_time(start, end, xn) == start + (xn * (end - start)) \div XDen

\* A zoom that moves the start only.
ZoomTime_EndFixed(v, tl) ==
    LET fn == tl.zoom[1][1]
        fd == tl.zoom[1][2]
        hover == v.start + (tl.xn * (v.end - v.start)) \div XDen
        start == hover - ((hover - v.start) * fn) \div fd
        end == v.end
        center == (start + end) \div 2
    IN  IF end - start < MinSpan
        THEN [v EXCEPT !.start = center - HalfMinSpan, !.end = center + HalfMinSpan]
        ELSE [v EXCEPT !.start = start, !.end = end]

\* The zoom of the time range about the pointer, zoom_factor = fn / fd.
ZoomTime(v, tl) ==
    LET fn == tl.zoom[1][1]
        fd == tl.zoom[1][2]
        hover == v.start + (tl.xn * (v.end - v.start)) \div XDen
        start == hover - ((hover - v.start) * fn) \div fd
        end == hover + ((v.end - hover) * fn) \div fd
        center == (start + end) \div 2
    IN  IF end - start < MinSpan
        THEN [v EXCEPT !.start = center - HalfMinSpan, !.end = center + HalfMinSpan]
        ELSE [v EXCEPT !.start = start, !.end = end]

\* The zoom of the track height about the pointer.
ZoomTrack(v, tl) ==
    LET fn == tl.zoom[1][1]
        fd == tl.zoom[1][2]
        height == Clamp((v.height * fn) \div fd, MinTrackHeight, MaxTrackHeight)
        y_in_content == tl.y + v.scroll
        new_y_in_content == (y_in_content * height) \div v.height
    IN  [v EXCEPT !.height = height, !.scroll = new_y_in_content - tl.y]

\* response.dragged(): the pan by drag_delta, dxn / XDen of the width.
Pan(v, tl) ==
    LET time_delta == (tl.dxn * (v.end - v.start)) \div XDen
    IN  [v EXCEPT !.start = v.start - time_delta, !.end = v.end - time_delta,
                  !.scroll = v.scroll - tl.dy]

\* A clamp that moves one end of the range only.
ClampTime_OneEnd(v, data) ==
    LET a == IF v.start > data.max_time THEN [v EXCEPT !.start = data.max_time] ELSE v
    IN  IF a.end < data.min_time THEN [a EXCEPT !.end = data.min_time] ELSE a

\* The shift of the time range back to the data.
ClampTime(v, data) ==
    LET duration == v.end - v.start
        a == IF v.start > data.max_time
             THEN [v EXCEPT !.start = data.max_time, !.end = data.max_time + duration]
             ELSE v
    IN  IF a.end < data.min_time
        THEN [a EXCEPT !.end = data.min_time, !.start = data.min_time - duration]
        ELSE a

\* The clamp of the scroll; track_height is the height read before the zoom.
ClampScroll(v, data, track_height, content_h) ==
    LET total_content_height == data.pe_count * v.height
        max_scroll == Max(total_content_height - (content_h - track_height), 0)
    IN  [v EXCEPT !.scroll = Clamp(v.scroll, 0, max_scroll)]

\* response.hovered() with a scroll: the zoom of the track height with
\* shift, of the time range without.
ZoomsTrack(tl) == tl.hovered /\ tl.zoom # None /\ tl.shift
ZoomsTime(tl) == tl.hovered /\ tl.zoom # None /\ ~tl.shift

\* The viewport after the zoom, pan and clamp steps of ui_timeline.
Viewport(v, data, tl, content_h) ==
    LET zoomed == IF ZoomsTrack(tl) THEN ZoomTrack(v, tl)
                  ELSE IF ZoomsTime(tl) THEN ZoomTime(v, tl)
                  ELSE v
        panned == IF tl.dragged THEN Pan(zoomed, tl) ELSE zoomed
    IN  ClampScroll(ClampTime(panned, data), data, v.height, content_h)

\* self.hover_time after ui_timeline
HoverTime(v, tl, content_h) ==
    IF InContent(tl, content_h) THEN Some(x_to_time(v.start, v.end, tl.xn))
    ELSE None

\* Whether the click or drag sets the cursor.
SetsCursor(tl, content_h) ==
    /\ tl.hovered
    /\ tl.clicked \/ tl.dragged
    /\ InRuler(tl) \/ (InContent(tl, content_h) /\ tl.shift)

(***************************************************************************)
(* app.rs: eframe::App::update                                             *)
(***************************************************************************)
\* dt * self.playback_speed, the speed counted in tenths
Advance(dt, speed) == (dt * speed) \div SpeedOne

\* The playback stops as soon as the cursor reaches max_time.
PastEnd_Inclusive(cursor, max_time) == cursor >= max_time

\* self.cursor_time > max_time
PastEnd(cursor, max_time) == cursor > max_time

\* if self.playing { ... }
PlaybackTick(cursor, play, speed, dt, max_time) ==
    IF play
    THEN IF PastEnd(cursor + Advance(dt, speed), max_time)
         THEN [cursor |-> max_time, playing |-> FALSE]
         ELSE [cursor |-> cursor + Advance(dt, speed), playing |-> TRUE]
    ELSE [cursor |-> cursor, playing |-> FALSE]

\* A restart only from max_time itself.
NearEnd_AtEndOnly(cursor, max_time) == cursor >= max_time

\* self.cursor_time >= max_time - 0.00001
NearEnd(cursor, max_time) == cursor >= max_time - RestartMargin

\* The play / pause button.
PlayButton(p, clicked, min_time, max_time) ==
    IF clicked
    THEN [cursor |-> IF ~p.playing /\ NearEnd(p.cursor, max_time)
                     THEN min_time ELSE p.cursor,
          playing |-> ~p.playing]
    ELSE p

\* An egui slider over [lo, hi]: a drag sets the value inside the range;
\* otherwise the value stays, or is clamped into the range.
SliderValues(value, lo, hi, drag) ==
    IF drag # None THEN {drag[1]} ELSE {value, Clamp(value, lo, hi)}

SpeedSliderMax(max_time) == Max(max_time \div (OneSecond \div SpeedOne), SpeedOne)

WindowSliderMax(min_time, max_time) == Max(max_time - min_time, MinWindow)

Checkbox(flag, clicked) == IF clicked THEN ~flag ELSE flag

\* ui_bandwidth, from the state ui_timeline and the controls left.
ui_bandwidth(data, node) ==
    /\ hovered_pe' = node
    /\ visited' = WindowQuery(data.events,
                              IF hover_time' # None THEN hover_time'[1]
                              ELSE cursor_time',
                              window_size_seconds')
    /\ comms' = Aggregate(data.events, visited', EmptyMap, show_rx', show_tx')
    /\ IF node = None
       THEN /\ interaction_bytes' = EmptyMap
            /\ max_interaction' = 0
       ELSE \E order \in IterationOrders(DOMAIN comms') :
              \E inter \in {Interactions(comms', order, node[1],
                                          [bytes |-> EmptyMap, max |-> 0])} :
                /\ interaction_bytes' = inter.bytes
                /\ max_interaction' = inter.max

\* ui_timeline with the pointer tl over a content region content_h high;
\* play is the cursor and the playback flag the controls left.
ui_timeline(data, tl, content_h, play) ==
    \E view \in {Viewport([start |-> timeline_start_time,
                            end |-> timeline_end_time,
                            scroll |-> timeline_pe_scroll,
                            height |-> timeline_track_height],
                           data, tl, content_h)} :
        /\ timeline_start_time' = view.start
        /\ timeline_end_time' = view.end
        /\ timeline_pe_scroll' = view.scroll
        /\ timeline_track_height' = view.height
        /\ hover_time' = HoverTime(view, tl, content_h)
        /\ cursor_time' =
              IF SetsCursor(tl, content_h)
              THEN Clamp(x_to_time(view.start, view.end, tl.xn),
                         data.min_time, data.max_time)
              ELSE play.cursor

\* One frame: eframe::App::update with the inputs of the frame.  After a
\* completed construction the application holds an error message or a
\* dataset.
Frame(in) ==
    /\ pc \in {"constructed", "running"}
    /\ UNCHANGED <<dir, zoom_log>>
    /\ last_frame' = [dt |-> in.dt, play_clicked |-> in.play_clicked,
                      sets_cursor |-> SetsCursor(in.tl, in.content_h),
                      time_zoom |-> IF ZoomsTime(in.tl)
                                    THEN Some([factor |-> in.tl.zoom[1], xn |-> in.tl.xn])
                                    ELSE None]
    /\ IF error_msg # None
       THEN pc' = "running" /\ UNCHANGED <<appVars, bwVars>>
       ELSE
        \E data \in {profile_data[1]} :
        \E play \in {PlayButton(PlaybackTick(cursor_time, playing, playback_speed,
                                             in.dt, data.max_time),
                                in.play_clicked, data.min_time, data.max_time)} :
            /\ in.speed # None =>
                 /\ SpeedMin <= in.speed[1]
                 /\ in.speed[1] <= SpeedSliderMax(data.max_time)
            /\ in.window # None =>
                 /\ MinWindow <= in.window[1]
                 /\ in.window[1] <= WindowSliderMax(data.min_time, data.max_time)
            /\ in.node \in HoveredPes(data.pe_count)
            /\ IF SetsCursor(in.tl, in.content_h) /\ data.min_time > data.max_time
               THEN \* f64::clamp panics when min > max
                    pc' = "crashed" /\ UNCHANGED <<appVars, bwVars>>
               ELSE
                /\ pc' = "running"
                /\ UNCHANGED <<profile_data, error_msg>>
                /\ playing' = play.playing
                /\ playback_speed' \in
                     SliderValues(playback_speed, SpeedMin,
                                  SpeedSliderMax(data.max_time), in.speed)
                /\ window_size_seconds' \in
                     SliderValues(window_size_seconds, MinWindow,
                                  WindowSliderMax(data.min_time, data.max_time),
                                  in.window)
                /\ show_rx' = Checkbox(show_rx, in.rx_clicked)
                /\ show_tx' = Checkbox(show_tx, in.tx_clicked)
                /\ ui_timeline(data, in.tl, in.content_h, play)
                /\ ui_bandwidth(data, in.node)

(***************************************************************************)
(* The inputs of a frame.  The pointer is over one widget at a time.       *)
(***************************************************************************)
NoPointer ==
    [hovered |-> FALSE, xn |-> 0, y |-> 0, clicked |-> FALSE, dragged |-> FALSE,
     dxn |-> 0, dy |-> 0, shift |-> FALSE, zoom |-> None]

Idle(h) ==
    [dt |-> 0, play_clicked |-> FALSE, speed |-> None, window |-> None,
     rx_clicked |-> FALSE, tx_clicked |-> FALSE, tl |-> NoPointer,
     content_h |-> h, node |-> None]

\* Pointer positions over the timeline: in the ruler strip, in the content
\* region, and on the edge the two rectangles share.
ContentY == 10
RulerY == -ContentY
PointerYs == {RulerY, 0, ContentY}
PointerXs == (-1)..XDen

Pointer(x, y) == [NoPointer EXCEPT !.hovered = TRUE, !.xn = x, !.y = y]

\* The frame time, a multiple of Step.
FrameTimes == {0, Step, 3 * Step}

PlaybackInputs(h) ==
    {[Idle(h) EXCEPT !.dt = d] : d \in FrameTimes}
    \cup {[Idle(h) EXCEPT !.dt = d, !.play_clicked = TRUE] : d \in FrameTimes}
    \cup {[Idle(h) EXCEPT !.dt = d, !.speed = Some(v)] :
            d \in FrameTimes, v \in {SpeedOne \div 2}}

FilterInputs(h) ==
    {[Idle(h) EXCEPT !.rx_clicked = TRUE], [Idle(h) EXCEPT !.tx_clicked = TRUE]}
    \cup {[Idle(h) EXCEPT !.window = Some(w)] : w \in {MinWindow, 2 * MinWindow}}

NodeInputs(h) == {[Idle(h) EXCEPT !.node = Some(i)] : i \in 0..U32Max}

HoverInputs(h) ==
    {[Idle(h) EXCEPT !.dt = d, !.tl = Pointer(x, y)] :
        d \in {0, Step}, x \in PointerXs, y \in PointerYs}

ClickInputs(h) ==
    {[Idle(h) EXCEPT !.tl = [Pointer(x, y) EXCEPT !.clicked = TRUE, !.shift = s]] :
        x \in PointerXs, y \in PointerYs, s \in BOOLEAN}

(***************************************************************************)
(* Directories the specifications start from.                              *)
(***************************************************************************)
SeqsUpTo(S, n) == UNION {[1..k -> S] : k \in 0..n}

\* Files of at most n rows: the first row drawn from first, the others
\* from rest.
FilesOf(first, rest, n) ==
    {<<>>} \cup
    IF n = 0 THEN {}
    ELSE {<<f>> \o r : f \in first, r \in SeqsUpTo(rest, n - 1)}

Directory(es) == [readable |-> TRUE, entries |-> es]
UnreadableDirectory == [readable |-> FALSE, entries |-> <<>>]

\* Directories for the load: records out of order across and inside the
\* files, negative times, a process id at the top of the u32 range, names
\* that do not match, unreadable files, rows that do not parse, files
\* without rows and first rows without a hostname.
LoadTimes == {-2 * Step, -Step, Step}
LoadDurations == {0, Step}
LoadPes == {Some(0), Some(1), Some(U32Max), None}
LoadFirstRows ==
    {RawEvent(t, d, -1, 0, 0, x) :
        t \in LoadTimes, d \in LoadDurations, x \in {None, Some("host")}}
    \cup {BadRow}
LoadRestRows ==
    {RawEvent(t, d, -1, 0, 0, None) : t \in LoadTimes, d \in LoadDurations}
    \cup {BadRow}
LoadEntries ==
    {DirEntry(p, TRUE, rs) :
        p \in LoadPes, rs \in FilesOf(LoadFirstRows, LoadRestRows, MaxRows)}
    \cup {DirEntry(p, FALSE, <<>>) : p \in LoadPes}
LoadDirs ==
    {UnreadableDirectory} \cup
    {Directory(es) : es \in SeqsUpTo(LoadEntries, MaxFiles)}

InitLoad ==
    /\ dir \in LoadDirs
    /\ pc = "init"
    /\ FreshApp
    /\ NoFrameYet

NextLoad == New

SpecLoad == InitLoad /\ [][NextLoad]_vars

\* Directories for the sessions.
HostRow(t, d, tgt, rx, tx) == RawEvent(t, d, tgt, rx, tx, Some("host"))
PlainRow(t, d, tgt, rx, tx) == RawEvent(t, d, tgt, rx, tx, None)

\* Two processes that send to and receive from each other.
TwoProcessDir ==
    Directory(<<DirEntry(Some(1), TRUE, <<HostRow(0, 0, 0, 100, 0)>>),
                DirEntry(None, TRUE, <<BadRow>>),
                DirEntry(Some(0), TRUE, <<HostRow(-Step, Step, 1, 300, 500),
                                          PlainRow(2 * Step, Step, 1, 0, 200)>>)>>)
\* One event without duration: min_time = max_time.
SingleEventDir ==
    Directory(<<DirEntry(Some(0), TRUE, <<HostRow(Step, 0, -1, 0, 0)>>)>>)
\* Every event before time 0.
NegativeDir ==
    Directory(<<DirEntry(Some(0), TRUE, <<HostRow(-2 * Step, Step, -1, 0, 0)>>)>>)
\* A record that names a process no file was loaded for.
FarTargetDir ==
    Directory(<<DirEntry(Some(0), TRUE, <<HostRow(0, Step, 3, 0, 500)>>)>>)
\* No matching file.
NoFileDir == Directory(<<DirEntry(None, TRUE, <<>>)>>)
\* Directories with a file that cannot be read or with a row that does not
\* parse, alone, before and after a good file.
GoodFile == DirEntry(Some(0), TRUE, <<HostRow(0, Step, -1, 0, 0)>>)
FaultyFiles ==
    {DirEntry(Some(1), FALSE, <<>>)}
    \cup {DirEntry(Some(1), TRUE, rs) :
            rs \in {r \in SeqsUpTo({HostRow(Step, 0, -1, 0, 0), BadRow}, MaxRows) :
                        \E i \in 1..Len(r) : ~r[i].parses}}
FaultyDirs ==
    {Directory(<<f>>) : f \in FaultyFiles}
    \cup {Directory(<<GoodFile, f>>) : f \in FaultyFiles}
    \cup {Directory(<<f, GoodFile>>) : f \in FaultyFiles}
\* One event shorter than the restart margin of the play button.
ShortDir ==
    Directory(<<DirEntry(Some(0), TRUE,
                         <<HostRow(Step, RestartMargin \div 2, -1, 0, 0)>>)>>)
\* A file without records.
EmptyFileDir == Directory(<<DirEntry(Some(0), TRUE, <<>>)>>)

AppDirs ==
    {TwoProcessDir, SingleEventDir, NegativeDir, FarTargetDir, NoFileDir,
     ShortDir, EmptyFileDir, UnreadableDirectory}
    \cup FaultyDirs

PanelHeight == 170

Init ==
    /\ dir \in AppDirs
    /\ pc = "init"
    /\ FreshApp
    /\ NoFrameYet

SessionInputs ==
    PlaybackInputs(PanelHeight) \cup HoverInputs(PanelHeight)
    \cup ClickInputs(PanelHeight) \cup FilterInputs(PanelHeight)
    \cup NodeInputs(PanelHeight)

Update == \E in \in SessionInputs : Frame(in)

Next == New \/ Update

Spec == Init /\ [][Next]_vars

(***************************************************************************)
(* The bandwidth view over many datasets: process 0 with up to MaxRows     *)
(* records and process 1 with one, to and from each other, to a third      *)
(* process, to themselves and to no process, some at the same time.        *)
(***************************************************************************)
BwRows0 ==
    {PlainRow(0, 0, 1, 0, 500), PlainRow(2 * Step, 0, -1, 100, 200),
     PlainRow(Step, Step, 2, 150, 250)}
BwRows1 ==
    {HostRow(Step, 0, 0, 300, 40), HostRow(Step, Step, 1, 70, 80),
     HostRow(3 * Step, 0, 0, 0, 60)}
WithHost(rows) == [i \in 1..Len(rows) |->
                    IF i = 1 THEN [rows[i] EXCEPT !.extra = Some("host")]
                    ELSE rows[i]]
BwDirs ==
    {Directory(<<DirEntry(Some(1), TRUE, <<r1>>),
                 DirEntry(Some(0), TRUE, WithHost(r0))>>) :
        r1 \in BwRows1, r0 \in SeqsUpTo(BwRows0, MaxRows) \ {<<>>}}

InitBw ==
    /\ dir \in BwDirs
    /\ pc = "init"
    /\ FreshApp
    /\ NoFrameYet

\* Clicks in the ruler strip put the cursor anywhere in the data.
BwInputs ==
    {Idle(PanelHeight)}
    \cup FilterInputs(PanelHeight) \cup NodeInputs(PanelHeight)
    \cup {[Idle(PanelHeight) EXCEPT !.tl = [Pointer(x, RulerY) EXCEPT !.clicked = TRUE]] :
            x \in 0..XDen}
    \cup {[Idle(PanelHeight) EXCEPT !.tl = Pointer(x, ContentY)] : x \in 0..XDen}

UpdateBw == \E in \in BwInputs : Frame(in)

NextBw == New \/ UpdateBw

SpecBw == InitBw /\ [][NextBw]_vars

(***************************************************************************)
(* The timeline under zooms and pans: scrolls with and without shift about *)
(* pointers over the content region and the label column, and drags.       *)
(***************************************************************************)
\* The largest time range the zooms of the model go out to.
MaxViewSpan == 32
\* The vertical drag distance in pixels.
PanY == 40
\* The time between the two events of TinyDir, 4 ns.
TinySpan == 8

\* zoom_factor = exp(-zoom_delta / 200) as numerator and denominator: in and
\* out by 2, and in far below the smallest span.
ZoomFactors == {<<1, 2>>, <<2, 1>>, <<1, 1000000>>}
TrackZoomFactors == {<<1, 2>>, <<2, 1>>}

\* Two events a few nanoseconds apart: the zooms and pans of the model
\* cover every range about them.
TinyDir ==
    Directory(<<DirEntry(Some(0), TRUE, <<HostRow(0, 0, -1, 0, 0),
                                          PlainRow(TinySpan, 0, -1, 0, 0)>>)>>)

ViewDirs == {TinyDir, SingleEventDir}

InitView ==
    /\ dir \in ViewDirs
    /\ pc = "init"
    /\ FreshApp
    /\ NoFrameYet

ViewInputs ==
    {Idle(PanelHeight)}
    \cup {[Idle(PanelHeight) EXCEPT !.tl = [Pointer(x, ContentY) EXCEPT !.zoom = Some(f)]] :
            x \in PointerXs, f \in ZoomFactors}
    \cup {[Idle(PanelHeight) EXCEPT
              !.tl = [Pointer(1, ContentY) EXCEPT !.dragged = TRUE, !.dxn = dx]] :
            dx \in {-XDen, -1, 1, XDen}}

\* The zooms stop at MaxViewSpan.
UpdateView ==
    /\ \E in \in ViewInputs : Frame(in)
    /\ timeline_end_time' - timeline_start_time' <= MaxViewSpan

NextView == New \/ UpdateView

SpecView == InitView /\ [][NextView]_vars

(***************************************************************************)
(* The tracks under zooms of their height and vertical drags.              *)
(***************************************************************************)
\* Processes 0 and U32Max - 1: more tracks than the panel shows.
WideDir ==
    Directory(<<DirEntry(Some(U32Max - 1), TRUE, <<HostRow(Step, Step, 0, 0, 0)>>),
                DirEntry(Some(0), TRUE, <<HostRow(0, 0, -1, 0, 0)>>)>>)

TrackDirs == {TwoProcessDir, WideDir}

InitTrack ==
    /\ dir \in TrackDirs
    /\ pc = "init"
    /\ FreshApp
    /\ NoFrameYet

TrackInputs ==
    {Idle(PanelHeight)}
    \cup {[Idle(PanelHeight) EXCEPT
              !.tl = [Pointer(0, y) EXCEPT !.zoom = Some(f), !.shift = TRUE]] :
            y \in {0, ContentY, PanelHeight}, f \in TrackZoomFactors}
    \cup {[Idle(PanelHeight) EXCEPT
              !.tl = [Pointer(0, ContentY) EXCEPT !.dragged = TRUE, !.dy = dy]] :
            dy \in {-PanY, PanY}}

UpdateTrack == \E in \in TrackInputs : Frame(in)

NextTrack == New \/ UpdateTrack

SpecTrack == InitTrack /\ [][NextTrack]_vars

(***************************************************************************)
(* The zoom of the time range on its own: the zoom branch of ui_timeline   *)
(* applied to ranges of every width about the smallest span, with anchors  *)
(* inside and outside the range.                                           *)
(***************************************************************************)
MaxZooms == 2           \* zooms in a row
MaxZoomSpan == 1024     \* the largest range the zooms go out to

ZoomStarts == {-MaxZoomSpan, 0, 3}
ZoomSpans == {1, MinSpan, 16 * XDen, 64 * XDen}
RoundTripFactors == {<<1, 2>>, <<2, 1>>, <<1, 16>>, <<16, 1>>}

InitZoom ==
    /\ dir = Directory(<<>>)
    /\ pc = "zoom"
    /\ profile_data = None
    /\ error_msg = None
    /\ cursor_time = 0
    /\ hover_time = None
    /\ window_size_seconds = InitialWindow
    /\ playing = FALSE
    /\ playback_speed = SpeedOne
    /\ show_rx = TRUE
    /\ show_tx = TRUE
    /\ timeline_start_time \in ZoomStarts
    /\ \E w \in ZoomSpans : timeline_end_time = timeline_start_time + w
    /\ timeline_pe_scroll = 0
    /\ timeline_track_height = InitialTrackHeight
    /\ NoFrameYet

\* The time-zoom branch of ui_timeline with zoom_factor f about the pointer
\* at xn / XDen of the width.
zoom_time(f, xn) ==
    /\ pc = "zoom"
    /\ Len(zoom_log) < MaxZooms
    /\ \E view \in {ZoomTime([start |-> timeline_start_time,
                               end |-> timeline_end_time,
                               scroll |-> timeline_pe_scroll,
                               height |-> timeline_track_height],
                              [Pointer(xn, ContentY) EXCEPT !.zoom = Some(f)])} :
          /\ view.end - view.start <= MaxZoomSpan
          /\ timeline_start_time' = view.start
          /\ timeline_end_time' = view.end
    /\ zoom_log' = Append(zoom_log, [start |-> timeline_start_time,
                                      end |-> timeline_end_time,
                                      factor |-> f, xn |-> xn])
    /\ UNCHANGED <<dir, pc, profile_data, error_msg, cursor_time, hover_time,
                   window_size_seconds, playing, playback_speed, show_rx,
                   show_tx, timeline_pe_scroll, timeline_track_height, bwVars,
                   last_frame>>

NextZoom == \E f \in RoundTripFactors, xn \in PointerXs : zoom_time(f, xn)

SpecZoom == InitZoom /\ [][NextZoom]_vars

(***************************************************************************)
(* Claims about the load.                                                  *)
(***************************************************************************)
Constructed == pc \in {"constructed", "running"}
Loaded == Constructed /\ profile_data # None
Data == profile_data[1]

\* The rows of the directory's matching files, as a set of (file, row) places.
LoadedPlaces ==
    {<<i, j>> \in (1..Len(dir.entries)) \X (1..(MaxRows + 1)) :
        /\ dir.entries[i].pe # None
        /\ j <= Len(dir.entries[i].rows)}

IsSortedByTime(events) ==
    \A i \in 1..(Len(events) - 1) : events[i].raw.time <= events[i + 1].raw.time

\* C1: after every successful load_from_dir the merged events sequence is
\* sorted non-decreasing by time, it holds every record of every matching
\* file, and min_time is the time of events[0].
C1_SortedAndMinTime ==
    Loaded =>
        /\ IsSortedByTime(Data.events)
        /\ Len(Data.events) = Cardinality(LoadedPlaces)
        /\ Len(Data.events) # 0 => Data.min_time = Data.events[1].raw.time

\* C1 witness: a load of two files of two records each, out of order both
\* inside the first file and across the files, with a tie between files.
C1_Witness ==
    /\ Loaded
    /\ Len(Data.events) = 4
    /\ Len(dir.entries) = 2
    /\ dir.entries[1].pe # dir.entries[2].pe
    /\ dir.entries[1].rows[1].time > dir.entries[1].rows[2].time
    /\ dir.entries[1].rows[2].time > dir.entries[2].rows[1].time
    /\ dir.entries[1].rows[1].time = dir.entries[2].rows[2].time

EndTimes(events) ==
    {events[i].raw.time + events[i].raw.duration_sec : i \in 1..Len(events)}

\* C2: after every successful load_from_dir with at least one event,
\* max_time is the maximum of time + duration over the loaded events, also
\* when every event time is negative, and so min_time <= max_time.
C2_MaxTimeIsMaxEnd ==
    (Loaded /\ Len(Data.events) # 0) =>
        /\ Data.max_time \in EndTimes(Data.events)
        /\ \A t \in EndTimes(Data.events) : t <= Data.max_time
        /\ Data.min_time <= Data.max_time

SourcePes(events) == {events[i].source_pe : i \in 1..Len(events)}

\* C3: after every successful load_from_dir of at least one matching file,
\* for any process ids of the u32 range, pe_count is 1 + the largest
\* source_pe of the events and every source_pe lies in [0, pe_count).
C3_PeCountIsMaxPlusOne ==
    (Loaded /\ Len(Data.events) # 0) =>
        /\ \E m \in SourcePes(Data.events) :
              /\ \A p \in SourcePes(Data.events) : p <= m
              /\ Data.pe_count = 1 + m
        /\ \A p \in SourcePes(Data.events) : 0 <= p /\ p < Data.pe_count

\* A matching file that the load reaches and reads in full, and that has no
\* record or whose first record has no Extra value.
EmptyOrHostless(entry) ==
    /\ entry.pe # None
    /\ entry.readable
    /\ \A j \in 1..Len(entry.rows) : entry.rows[j].parses
    /\ Len(entry.rows) = 0 \/ entry.rows[1].extra = None

\* C8: when a matching file has no record, or its first record has no Extra
\* value, the load does not crash and does not skip the file: the
\* application ends up showing an error message and holds no dataset.
C8_EmptyOrHostlessIsLoadError ==
    (pc # "init" /\ dir.readable
        /\ \E i \in 1..Len(dir.entries) : EmptyOrHostless(dir.entries[i]))
    => (Constructed /\ error_msg # None /\ profile_data = None)

(***************************************************************************)
(* Claims about the bandwidth view.                                        *)
(***************************************************************************)
\* A frame has drawn the bandwidth view of a loaded dataset.
Drawn == pc = "running" /\ profile_data # None

ViewTime == IF hover_time # None THEN hover_time[1] ELSE cursor_time

\* The linear filter: the events whose time lies in
\* [ViewTime - window / 2, ViewTime + window / 2].
WindowSet ==
    {i \in 1..Len(Data.events) :
        /\ 2 * ViewTime - window_size_seconds <= 2 * Data.events[i].raw.time
        /\ 2 * Data.events[i].raw.time <= 2 * ViewTime + window_size_seconds}

\* C4: the window query (binary-search lower bound, then a forward scan that
\* stops at the first event later than the window) visits exactly the
\* events whose time lies in the window, each once and in order.
C4_WindowQueryIsLinearFilter ==
    Drawn =>
        /\ {visited[k] : k \in 1..Len(visited)} = WindowSet
        /\ \A k \in 1..(Len(visited) - 1) : visited[k] < visited[k + 1]

\* C4 witness: the window leaves out an earlier and a later event and holds
\* one in between.
C4_Witness ==
    /\ Drawn
    /\ Len(visited) >= 1
    /\ visited[1] > 1
    /\ visited[Len(visited)] < Len(Data.events)

AllPes == 0..U32Max

\* The window's events from process a to another process b.
Qualifying(a, b) ==
    {i \in WindowSet :
        /\ Data.events[i].source_pe = a
        /\ Data.events[i].raw.target_pe = b
        /\ a # b}

RECURSIVE SumTx(_)
SumTx(S) ==
    IF S = {} THEN 0
    ELSE LET i == CHOOSE x \in S : TRUE
         IN  Data.events[i].raw.bytes_tx + SumTx(S \ {i})

RECURSIVE SumRx(_)
SumRx(S) ==
    IF S = {} THEN 0
    ELSE LET i == CHOOSE x \in S : TRUE
         IN  Data.events[i].raw.bytes_rx + SumRx(S \ {i})

\* C5: with transmit enabled the sent total of every ordered pair (a, b) is
\* the sum of bytes_tx over the window's events from a to b, b not
\* negative and a # b; with transmit disabled every sent total is zero;
\* events to a negative target or to their own process are in no pair.
C5_SentTotals ==
    Drawn =>
        /\ \A a, b \in AllPes :
              EntryOrZero(comms, <<a, b>>)[1] =
                  IF show_tx THEN SumTx(Qualifying(a, b)) ELSE 0
        /\ \A key \in DOMAIN comms :
              key[1] \in AllPes /\ key[2] \in AllPes /\ key[1] # key[2]

\* C5 witness: two sends of 500 bytes from 0 to 1 in the window add up, next
\* to events to no process or to their own process.
C5_Witness ==
    /\ Drawn
    /\ show_tx
    /\ <<0, 1>> \in DOMAIN comms
    /\ comms[<<0, 1>>][1] = 1000
    /\ \E i \in WindowSet :
          /\ Data.events[i].raw.bytes_tx > 0
          /\ \/ Data.events[i].raw.target_pe < 0
             \/ Data.events[i].raw.target_pe = Data.events[i].source_pe

\* C6: with receive enabled the bytes_rx of an event from s to t are added
\* to the received total of the reversed key (t, s) only, so the received
\* total of (a, b) is the sum over the window's events from b to a; with
\* receive disabled every received total is zero.
C6_ReceivedTotals ==
    Drawn =>
        \A a, b \in AllPes :
            EntryOrZero(comms, <<a, b>>)[2] =
                IF show_rx THEN SumRx(Qualifying(b, a)) ELSE 0

\* C6 witness: process 1 received 300 bytes from 0; the total is under
\* (0, 1), and (1, 0) holds what 1 sent and nothing received.
C6_Witness ==
    /\ Drawn
    /\ show_rx
    /\ <<0, 1>> \in DOMAIN comms /\ comms[<<0, 1>>][2] = 300
    /\ <<1, 0>> \in DOMAIN comms /\ comms[<<1, 0>>] = <<40, 0>>

PairSum(p, q) == <<p[1] + q[1], p[2] + q[2]>>

\* The total of node n for the focus node h.
NodeTotal(h, n) ==
    PairSum(EntryOrZero(comms, <<h, n>>), EntryOrZero(comms, <<n, h>>))

\* C7: for the focus node h and every node n # h, node_totals[n] is the
\* component-wise sum of the pairs (h, n) and (n, h), no other pair
\* contributes, and max_node_total is the largest sent + received of a
\* node, whatever the order the pairs are iterated in.
C7_NodeTotals ==
    (Drawn /\ hovered_pe # None) =>
        LET h == hovered_pe[1]
            partners == {n \in AllPes \ {h} :
                            <<h, n>> \in DOMAIN comms \/ <<n, h>> \in DOMAIN comms}
        IN  /\ DOMAIN interaction_bytes = partners
            /\ \A n \in partners : interaction_bytes[n] = NodeTotal(h, n)
            /\ \A n \in partners :
                  NodeTotal(h, n)[1] + NodeTotal(h, n)[2] <= max_interaction
            /\ \/ partners = {} /\ max_interaction = 0
               \/ \E n \in partners :
                     max_interaction = NodeTotal(h, n)[1] + NodeTotal(h, n)[2]

\* C7 witness: focus 0 with two partners, one of them reached by pairs in
\* both directions.
C7_Witness ==
    /\ Drawn
    /\ hovered_pe = Some(0)
    /\ DOMAIN comms = {<<0, 1>>, <<1, 0>>, <<0, 2>>, <<2, 0>>}
    /\ DOMAIN interaction_bytes = {1, 2}
    /\ interaction_bytes[1] = <<540, 300>>
    /\ interaction_bytes[2] = <<250, 150>>
    /\ max_interaction = 840

(***************************************************************************)
(* Claims about the session.                                               *)
(***************************************************************************)
\* A matching file of the directory cannot be read or has a row that does
\* not parse, or the directory itself cannot be read.
HasFault(d) ==
    \/ ~d.readable
    \/ \E i \in 1..Len(d.entries) :
          /\ d.entries[i].pe # None
          /\ \/ ~d.entries[i].readable
             \/ \E j \in 1..Len(d.entries[i].rows) : ~d.entries[i].rows[j].parses

C9_ErrorOrData ==
    Constructed =>
        /\ (error_msg # None) <=> (profile_data = None)
        /\ HasFault(dir) => (error_msg # None /\ profile_data = None)

C9_ErrorFrame ==
    (Constructed /\ error_msg # None) =>
        UNCHANGED <<profile_data, error_msg, cursor_time, hover_time, playing,
                    playback_speed, window_size_seconds, show_rx, show_tx,
                    timeline_start_time, timeline_end_time, timeline_pe_scroll,
                    timeline_track_height>>

PlayingTick ==
    /\ Loaded
    /\ playing
    /\ pc' = "running"
    /\ ~last_frame'.play_clicked
    /\ ~last_frame'.sets_cursor

\* cursor_time + dt * playback_speed
TickTarget == cursor_time + Advance(last_frame'.dt, playback_speed)

\* C10 as the code has it: a Playing tick sets cursor_time to
\* cursor_time + dt * speed and the state remains Playing if the new
\* cursor_time is <= max_time, exact equality included; only when it is
\* > max_time is cursor_time clamped to max_time and the state Stopped.
C10_TickStopsPastEnd ==
    [][PlayingTick =>
         IF TickTarget > Data.max_time
         THEN cursor_time' = Data.max_time /\ ~playing'
         ELSE cursor_time' = TickTarget /\ playing']_vars

\* C10 as stated: the state remains Playing only if the new cursor_time is
\* < max_time; at >= max_time, equality included, it is clamped and Stopped.
C10_TickStopsAtEnd ==
    [][PlayingTick =>
         IF TickTarget >= Data.max_time
         THEN cursor_time' = Data.max_time /\ ~playing'
         ELSE cursor_time' = TickTarget /\ playing']_vars

\* C10 witness: a Playing tick that moved the cursor has put it exactly on
\* max_time, and the playback goes on.
C10_Witness ==
    /\ Drawn
    /\ playing
    /\ last_frame.dt > 0
    /\ ~last_frame.play_clicked /\ ~last_frame.sets_cursor
    /\ Data.min_time < Data.max_time
    /\ cursor_time = Data.max_time

\* The cursor and the playback flag the play button finds: those the tick of
\* the same frame has left.
TickedPlaying == playing /\ TickTarget <= Data.max_time
TickedCursor ==
    IF ~playing THEN cursor_time
    ELSE IF TickTarget > Data.max_time THEN Data.max_time ELSE TickTarget

\* A frame with a click on the play button and no pointer that sets the
\* cursor.
PlayPress ==
    /\ Loaded
    /\ pc' = "running"
    /\ last_frame'.play_clicked
    /\ ~last_frame'.sets_cursor

\* C11: the play button pressed in Stopped with cursor_time >=
\* max_time - 1e-5 sets cursor_time to min_time and switches to Playing;
\* pressed in Stopped further from the end it switches to Playing and leaves
\* cursor_time; pressed in Playing it switches to Stopped and leaves
\* cursor_time.
C11_PlayButton ==
    [][PlayPress =>
         IF TickedPlaying
         THEN ~playing' /\ cursor_time' = TickedCursor
         ELSE /\ playing'
              /\ cursor_time' =
                    IF TickedCursor >= Data.max_time - RestartMargin
                    THEN Data.min_time ELSE TickedCursor]_vars

\* C11 witness: the button was pressed in Stopped in a dataset shorter than
\* the margin, where every cursor is within 1e-5 of max_time and not on it at
\* min_time: the playback restarted from min_time.
C11_Witness ==
    /\ Drawn
    /\ last_frame.play_clicked /\ ~last_frame.sets_cursor
    /\ playing
    /\ Data.min_time < Data.max_time
    /\ Data.max_time - Data.min_time <= RestartMargin
    /\ cursor_time = Data.min_time

(***************************************************************************)
(* Claims about the timeline.                                              *)
(***************************************************************************)
ViewSpan == timeline_end_time - timeline_start_time

\* C12: whenever a frame has evaluated the time-to-pixel and pixel-to-time
\* maps of a loaded dataset, after any zooms, pans and clamps, the visible
\* time range is at least 1e-9 wide.
C12_SpanAtLeastMinSpan == Drawn => ViewSpan >= MinSpan

\* The range the k-th zoom of the log left.
RangeAfter(k) ==
    IF k < Len(zoom_log)
    THEN <<zoom_log[k + 1].start, zoom_log[k + 1].end>>
    ELSE <<timeline_start_time, timeline_end_time>>

\* The k-th zoom and the next one have the same anchor ratio and inverse
\* factors: the second has the negated delta.
InversePair(k) ==
    /\ k + 1 <= Len(zoom_log)
    /\ zoom_log[k].xn = zoom_log[k + 1].xn
    /\ zoom_log[k].factor[1] = zoom_log[k + 1].factor[2]
    /\ zoom_log[k].factor[2] = zoom_log[k + 1].factor[1]

\* The k-th zoom left a range of at least the smallest span: it was not
\* re-centred.
NotFloored(k) ==
    (zoom_log[k].end - zoom_log[k].start) * zoom_log[k].factor[1]
        >= MinSpan * zoom_log[k].factor[2]

\* The k-th zoom is exact in the time unit of the model: the time under the
\* pointer and both scaled sides are whole numbers of units.
Exact(k) ==
    LET z == zoom_log[k]
        span == z.end - z.start
        left == (z.xn * span) \div XDen
    IN  /\ (z.xn * span) % XDen = 0
        /\ (left * z.factor[1]) % z.factor[2] = 0
        /\ ((span - left) * z.factor[1]) % z.factor[2] = 0

Restored(k) ==
    /\ RangeAfter(k + 1)[1] = zoom_log[k].start
    /\ RangeAfter(k + 1)[2] = zoom_log[k].end

\* C13 as the code has it: a zoom of the time range followed by the zoom
\* with the same anchor ratio and the negated delta returns start and end
\* to their values when neither zoom left a range below the smallest span
\* 1e-9; a zoom that did was re-centred to that span.  Times are whole
\* units here, so the two zooms are taken where they are exact and the
\* values return exactly.
C13_ZoomRoundTripAboveMinSpan ==
    \A k \in 1..Len(zoom_log) :
        (/\ InversePair(k)
         /\ Exact(k) /\ Exact(k + 1)
         /\ NotFloored(k) /\ NotFloored(k + 1)) => Restored(k)

\* C13 as stated: for any range start < end, any anchor ratio and any delta
\* the two zooms return start and end to their values.
C13_ZoomRoundTrip ==
    \A k \in 1..Len(zoom_log) :
        (InversePair(k) /\ Exact(k) /\ Exact(k + 1)) => Restored(k)

\* C13 witness: a range zoomed in by 16 about its middle, to a range other
\* than the first and not below the smallest span, and zoomed back out by 16
\* about its middle.
C13_Witness ==
    /\ Len(zoom_log) = 2
    /\ InversePair(1) /\ NotFloored(1) /\ NotFloored(2)
    /\ Exact(1) /\ Exact(2)
    /\ zoom_log[1].factor = <<1, 16>>
    /\ zoom_log[1].xn = 1
    /\ zoom_log[2].end - zoom_log[2].start < zoom_log[1].end - zoom_log[1].start
    /\ timeline_start_time = zoom_log[1].start
    /\ timeline_end_time = zoom_log[1].end

\* The width a zoom by f about the pointer at xn / XDen gives the range:
\* both sides of the pointer scaled by f, and 1e-9 when that is less.
ZoomedSpan(f, xn) ==
    LET hover == timeline_start_time + (xn * ViewSpan) \div XDen
        left == ((hover - timeline_start_time) * f[1]) \div f[2]
        right == ((timeline_end_time - hover) * f[1]) \div f[2]
    IN  IF left + right < MinSpan THEN MinSpan ELSE left + right

\* The width of the range before the clamp step of the frame.
SpanBeforeClamp ==
    IF last_frame'.time_zoom = None THEN ViewSpan
    ELSE ZoomedSpan(last_frame'.time_zoom[1].factor, last_frame'.time_zoom[1].xn)

\* C14: after the clamp step of every frame, following any zoom or pan,
\* start <= max_time and end >= min_time, and the clamp step has left
\* end - start as the zoom and the pan made it.
C14_ClampKeepsRangeAtData ==
    [][(Loaded /\ pc' = "running") =>
         /\ timeline_start_time' <= Data.max_time
         /\ timeline_end_time' >= Data.min_time
         /\ timeline_end_time' - timeline_start_time' = SpanBeforeClamp]_vars

\* C14 witness: a zoomed range, narrower than the data, sits with its start
\* on max_time after a drag, all of it past the data.
C14_Witness ==
    /\ Drawn
    /\ Data.min_time < Data.max_time
    /\ last_frame.time_zoom = None
    /\ timeline_start_time = Data.max_time
    /\ ViewSpan >= MinSpan
    /\ ViewSpan < Data.max_time - Data.min_time

\* max(0, process_count * track_height - (content height - track_height))
\* with the current track height in both places.
MaxScroll ==
    Max(0, Data.pe_count * timeline_track_height
             - (PanelHeight - timeline_track_height))

\* C15: after the clamp step of every frame, one that zoomed the track
\* height included, the track height is within [8, 100] and
\* 0 <= scroll <= max(0, process_count * track_height
\*                       - (content height - track_height))
\* for the track height the frame has left.
C15_ScrollWithinCurrentHeight ==
    Drawn =>
        /\ MinTrackHeight <= timeline_track_height
        /\ timeline_track_height <= MaxTrackHeight
        /\ 0 <= timeline_pe_scroll
        /\ timeline_pe_scroll <= MaxScroll

C17_PairKeysAreNodes ==
    Drawn =>
        \A key \in DOMAIN comms :
            /\ 0 <= key[1] /\ key[1] < Data.pe_count
            /\ 0 <= key[2] /\ key[2] < Data.pe_count

====
